---- MODULE Spec2Model ----
(***************************************************************************)
(* Model of nbodykit's catalog layer (nbodykit/base/catalog.py):           *)
(* CatalogSourceBase / CatalogSource, the column resolution functions,     *)
(* get_catalog_subset and the collective size bookkeeping, run by a fixed  *)
(* set of MPI ranks that execute the same program (SPMD).                  *)
(***************************************************************************)
EXTENDS Integers, Sequences, FiniteSets, TLC

VARIABLES cats, attrs, prog, ip, pc, pending, contrib, last, nlocal, gateway, reader,
          plugins

vars ==
    <<cats, attrs, prog, ip, pc, pending, contrib, last, nlocal, gateway, reader,
      plugins>>

(***************************************************************************)
(* Bounds of the model.                                                    *)
(***************************************************************************)
NRanks == 2          \* ranks of the communicator
MaxSize == 2         \* largest local size of the initial catalog
MaxCalls == 2        \* calls of the program in a run
MaxArgs == 2         \* arguments of a call of compute
MaxClasses == 3      \* plugin classes defined in a run

Ranks == 0 .. (NRanks - 1)
CatIds == 1 .. (1 + MaxCalls)

\* ``NotImplemented``: the value of ``size`` when ``_size`` was never set
NotImplemented == -1
\* marks a catalog that has no ``_csize`` attribute yet
NoCsize == -1

(***************************************************************************)
(* Column names and their Python string order (used by ``sorted``).        *)
(***************************************************************************)
Names == {"A", "B", "Position", "Selection", "Value", "Weight"}

NameOrd(n) ==
    CASE n = "A" -> 1
      [] n = "B" -> 2
      [] n = "Position" -> 3
      [] n = "Selection" -> 4
      [] n = "Value" -> 5
      [] n = "Weight" -> 6

\* the iteration order of a set or dict of names (hash order, not sorted)
HashOrd(n) ==
    CASE n = "Weight" -> 1
      [] n = "A" -> 2
      [] n = "Value" -> 3
      [] n = "Position" -> 4
      [] n = "Selection" -> 5
      [] n = "B" -> 6

\* the element of a non-empty set of names that is iterated first
FirstName(S) == CHOOSE n \in S : \A m \in S : HashOrd(n) <= HashOrd(m)

\* list(d) / list(s): the elements of a set or the keys of a dict as a list
RECURSIVE list(_)
list(S) ==
    IF S = {} THEN <<>>
    ELSE LET first == FirstName(S) IN <<first>> \o list(S \ {first})

\* set(l): the elements of a list
set(l) == {l[i] : i \in 1 .. Len(l)}

\* insertion of one name in an already sorted list
RECURSIVE insort(_, _)
insort(l, n) ==
    IF l = <<>> THEN <<n>>
    ELSE IF NameOrd(n) <= NameOrd(Head(l)) THEN <<n>> \o l
    ELSE <<Head(l)>> \o insort(Tail(l), n)

\* sorted(l): Python's sorted() on a list of names (keeps duplicates)
RECURSIVE sorted(_)
sorted(l) == IF l = <<>> THEN <<>> ELSE insort(sorted(Tail(l)), Head(l))

(***************************************************************************)
(* Classes: the tagged members (``column_name``) of each class __dict__    *)
(* and the bases.  SubCatalog stands for a user subclass of CatalogSource  *)
(* that declares one more column and re-declares "Weight"; Mixin is a      *)
(* class outside the hierarchy that declares columns, DeepCatalog and Leaf *)
(* are subclasses with two bases each.                                     *)
(***************************************************************************)
Classes ==
    {"object", "CatalogSourceBase", "CatalogSource", "SubCatalog",
     "Mixin", "DeepCatalog", "Leaf"}

class_bases(cls) ==
    CASE cls = "object" -> <<>>
      [] cls = "CatalogSourceBase" -> <<"object">>
      [] cls = "CatalogSource" -> <<"CatalogSourceBase">>
      [] cls = "SubCatalog" -> <<"CatalogSource">>
      [] cls = "Mixin" -> <<"object">>
      [] cls = "DeepCatalog" -> <<"SubCatalog", "Mixin">>
      [] cls = "Leaf" -> <<"Mixin", "DeepCatalog">>

class_dict(cls) ==
    CASE cls = "CatalogSource" -> <<"Selection", "Weight", "Value">>
      [] cls = "SubCatalog" -> <<"Position", "Weight">>
      [] cls = "Mixin" -> <<"Weight", "A">>
      [] cls = "Leaf" -> <<"Value">>
      [] OTHER -> <<>>

RECURSIVE find_columns(_)
RECURSIVE find_columns_bases(_)
find_columns_bases(bases) ==
    IF bases = <<>> THEN <<>>
    ELSE find_columns(Head(bases)) \o find_columns_bases(Tail(bases))

find_columns(cls) ==
    LET hardcolumns == class_dict(cls) \o find_columns_bases(class_bases(cls))
    IN  sorted(list(set(hardcolumns)))

(***************************************************************************)
(* Values: scalars, lists, numpy arrays, dask arrays and column accessors. *)
(* An array is its sequence of rows with an element type; an accessor also *)
(* names the catalog it refers to (0: no catalog).  Rows are strings;      *)
(* "True" / "False" are the booleans.                                      *)
(***************************************************************************)
Scalar(v) == [kind |-> "scalar", dtype |-> "", data |-> <<v>>, catalog |-> 0]
NdArray(dtype, s) == [kind |-> "ndarray", dtype |-> dtype, data |-> s, catalog |-> 0]
DaskArray(dtype, s) == [kind |-> "dask", dtype |-> dtype, data |-> s, catalog |-> 0]
\* a Python list; dtype is the element type numpy.array(list) has ("i" for
\* integers, written as their decimal strings)
List(dtype, s) == [kind |-> "list", dtype |-> dtype, data |-> s, catalog |-> 0]
\* slice(start, stop); "None" is an absent bound
Slice(start, stop) ==
    [kind |-> "slice", dtype |-> "", data |-> <<start, stop>>, catalog |-> 0]

\* ColumnAccessor.__new__(cls, catalog, daskarray)
ColumnAccessor(catalog, daskarray) ==
    [kind |-> "accessor", dtype |-> daskarray.dtype, data |-> daskarray.data,
     catalog |-> catalog]

\* ColumnAccessor.as_daskarray
as_daskarray(self) == DaskArray(self.dtype, self.data)

\* element type numpy gives to a scalar
dtype_of(v) == IF v \in {"True", "False"} THEN "?" ELSE "U"

\* nbodykit.transform.ConstantArray(value, size)
ConstantArray(value, size) == DaskArray(dtype_of(value), [i \in 1 .. size |-> value])

\* numpy.isscalar
isscalar(value) == value.kind = "scalar"

\* isinstance(array, da.Array): ColumnAccessor subclasses da.Array
isinstance_da_Array(array) == array.kind \in {"dask", "accessor"}

\* isinstance(array, ColumnAccessor)
isinstance_ColumnAccessor(array) == array.kind = "accessor"

\* CatalogSourceBase.make_column
make_column(array) ==
    IF isinstance_da_Array(array) THEN array
    ELSE IF isinstance_ColumnAccessor(array) THEN as_daskarray(array)
    ELSE DaskArray(array.dtype, array.data)

\* len(value)
len(value) == Len(value.data)

(***************************************************************************)
(* Results of a call: a status ("ok" or the error raised) and a value.     *)
(* Errors carry the names of the specification's taxonomy; the Python      *)
(* exception raised is given where the error is produced.                  *)
(***************************************************************************)
NoValue == DaskArray("", <<>>)
Ok(v) == [status |-> "ok", value |-> v]
Err(e) == [status |-> e, value |-> NoValue]

(***************************************************************************)
(* A catalog object: its class, ``_size`` (NotImplemented when unset),     *)
(* ``_csize`` (NoCsize when unset), ``_overrides`` and the identity of its *)
(* ``_attrs`` dictionary in the rank's heap of dictionaries.               *)
(***************************************************************************)
Catalog(cls, size, csize, overrides, attrsId) ==
    [cls |-> cls, size |-> size, csize |-> csize, overrides |-> overrides,
     attrs |-> attrsId]

\* the empty dictionary
EmptyDict == [n \in {} |-> NoValue]

\* CatalogSourceBase.hardcolumns
_hardcolumns == [cls \in Classes |-> find_columns(cls)]
hardcolumns(self) == _hardcolumns[self.cls]

\* columns without the set(): a name that is hard and overridden is kept twice
columns_nodedupe(self) == sorted(hardcolumns(self) \o list(DOMAIN self.overrides))

\* CatalogSourceBase.columns
columns(self) ==
    LET hcolumns == hardcolumns(self)
        overrides == list(DOMAIN self.overrides)
    IN  sorted(list(set(hcolumns \o overrides)))

\* the class that declares the provider find_column returns, "" if none
RECURSIVE find_column(_, _)
RECURSIVE find_column_bases(_, _)
find_column_bases(bases, name) ==
    IF bases = <<>> THEN ""
    ELSE LET r == find_column(Head(bases), name)
         IN  IF r # "" THEN r ELSE find_column_bases(Tail(bases), name)

\* find_column that searches the bases before the class itself
find_column_bases_first(cls, name) ==
    LET r == find_column_bases(class_bases(cls), name)
    IN  IF r # "" THEN r
        ELSE IF name \in set(class_dict(cls)) THEN cls ELSE ""

find_column(cls, name) ==
    IF name \in set(class_dict(cls)) THEN cls
    ELSE find_column_bases(class_bases(cls), name)

\* what a call of find_column gives its caller: the member found (the class
\* that declares it and its column_name), or the AttributeError with the
\* arguments of its message
Provider(decl, name) ==
    [kind |-> "provider", dtype |-> decl, data |-> <<name>>, catalog |-> 0]
AttributeError(args) ==
    [kind |-> "AttributeError", dtype |-> "", data |-> args, catalog |-> 0]

find_column_call(cls, name) ==
    LET decl == find_column(cls, name)
    IN  IF decl = ""
        THEN [status |-> "ColumnNotFound", value |-> AttributeError(<<name, cls>>)]
        ELSE [status |-> "ok", value |-> Provider(decl, name)]

\* the column providers: CatalogSource.Selection / Weight / Value and the
\* providers of the subclass, applied to a catalog
provider(cls, name, self) ==
    IF self.size = NotImplemented THEN Err("TypeError")
    ELSE CASE cls = "CatalogSource" /\ name = "Selection" -> Ok(ConstantArray("True", self.size))
           [] cls = "CatalogSource" /\ name = "Weight" -> Ok(ConstantArray("1.0", self.size))
           [] cls = "CatalogSource" /\ name = "Value" -> Ok(ConstantArray("1.0", self.size))
           [] cls = "SubCatalog" /\ name = "Weight" -> Ok(ConstantArray("2.0", self.size))
           [] cls = "SubCatalog" /\ name = "Position" -> Ok(ConstantArray("p", self.size))
           [] OTHER -> Err("ColumnNotFound")

\* CatalogSourceBase.get_hardcolumn
get_hardcolumn(self, col) ==
    LET decl == find_column(self.cls, col)
    IN  IF decl = "" THEN Err("ColumnNotFound") ELSE provider(decl, col, self)

\* __getitem__ that looks at the hard columns before the overrides
getitem_str_hardfirst(self, id, sel) ==
    LET r == IF sel \in set(hardcolumns(self)) THEN get_hardcolumn(self, sel)
             ELSE IF sel \in DOMAIN self.overrides THEN Ok(self.overrides[sel])
             ELSE Err("UnknownColumn")
    IN  IF r.status = "ok" THEN Ok(ColumnAccessor(id, r.value)) ELSE r

\* CatalogSourceBase.__getitem__, string selector (id: the catalog object)
getitem_str(self, id, sel) ==
    LET r == IF sel \in DOMAIN self.overrides THEN Ok(self.overrides[sel])
             ELSE IF sel \in set(hardcolumns(self)) THEN get_hardcolumn(self, sel)
             ELSE Err("UnknownColumn")     \* KeyError
    IN  IF r.status = "ok" THEN Ok(ColumnAccessor(id, r.value)) ELSE r

\* CatalogSourceBase.__setitem__
base_setitem(self, col, value) ==
    LET v == make_column(value)
    IN  [self EXCEPT !.overrides =
            [n \in (DOMAIN self.overrides) \cup {col} |->
                IF n = col THEN v ELSE self.overrides[n]]]

\* __setitem__ that broadcasts a scalar to one row instead of ``size`` rows
setitem_broadcast_one(self, col, value) ==
    IF isscalar(value) /\ self.size = NotImplemented
    THEN [status |-> "SizeRequired", cat |-> self]
    ELSE LET v == IF isscalar(value) THEN ConstantArray(value.data[1], 1) ELSE value
         IN  IF self.size # NotImplemented /\ len(v) # self.size
             THEN [status |-> "LengthMismatch", cat |-> self]
             ELSE [status |-> "ok", cat |-> base_setitem(self, col, v)]

\* __setitem__ without the check of the length
setitem_no_length_check(self, col, value) ==
    IF isscalar(value) /\ self.size = NotImplemented
    THEN [status |-> "SizeRequired", cat |-> self]
    ELSE LET v == IF isscalar(value)
                  THEN ConstantArray(value.data[1], self.size)
                  ELSE value
         IN  [status |-> "ok", cat |-> base_setitem(self, col, v)]

\* CatalogSource.__setitem__: the status and the catalog afterwards
setitem(self, col, value) ==
    IF isscalar(value) /\ self.size = NotImplemented
    THEN [status |-> "SizeRequired", cat |-> self]        \* AssertionError
    ELSE LET v == IF isscalar(value)
                  THEN ConstantArray(value.data[1], self.size)
                  ELSE value
         IN  IF self.size # NotImplemented /\ len(v) # self.size
             THEN [status |-> "LengthMismatch", cat |-> self]   \* AssertionError
             ELSE [status |-> "ok", cat |-> base_setitem(self, col, v)]

(***************************************************************************)
(* Derived views.                                                          *)
(***************************************************************************)
\* a constructor that never calls update_csize
init_never_calls_update_csize(size) == FALSE

\* CatalogSource.__init__: whether the constructor calls update_csize
init_calls_update_csize(size) == size # NotImplemented

\* the loop of _from_columns: self[name] = columns[name] for every name
RECURSIVE from_columns_fill(_, _, _)
from_columns_fill(self, names, cols) ==
    IF names = <<>> THEN [status |-> "ok", cat |-> self]
    ELSE LET r == setitem(self, Head(names), cols[Head(names)])
         IN  IF r.status # "ok" THEN r
             ELSE from_columns_fill(r.cat, Tail(names), cols)

\* a new catalog that shares the dictionary of its parent
attrs_property_alias(id, parentAttrs) == parentAttrs

\* the identity of the dictionary ``toret.attrs`` of a new catalog ``id``
\* derived from a parent whose dictionary is ``parentAttrs``
attrs_property(id, parentAttrs) == id

\* CatalogSource._from_columns, given the value ``csize`` that the
\* all-reduce of the constructor returned (NoCsize: no all-reduce)
from_columns(id, size, csize, cols, parentAttrs) ==
    from_columns_fill(
        Catalog("CatalogSource", size, csize, EmptyDict, attrs_property(id, parentAttrs)),
        list(DOMAIN cols), cols)

\* dict.update
dict_update(dst, src) ==
    [k \in (DOMAIN dst) \cup (DOMAIN src) |-> IF k \in DOMAIN src THEN src[k] ELSE dst[k]]

\* x[:index.sum()]: as many rows as the index has True entries, from the top
take_rows_head(data, index) ==
    SubSeq(data, 1, Cardinality({i \in DOMAIN index : index[i] = "True"}))

\* x[index] for a boolean index of the same length: the rows kept
RECURSIVE take_rows(_, _)
take_rows(data, index) ==
    IF data = <<>> \/ index = <<>> THEN <<>>
    ELSE (IF Head(index) = "True" THEN <<Head(data)>> ELSE <<>>)
         \o take_rows(Tail(data), Tail(index))

\* index.sum() replaced by len(index)
index_sum_len(index) == Len(index)

\* index.sum()
RECURSIVE index_sum(_)
index_sum(index) ==
    IF index = <<>> THEN 0
    ELSE (IF Head(index) = "True" THEN 1 ELSE 0) + index_sum(Tail(index))

\* parent[col][index]: indexing an accessor gives a plain dask array
take(column, index) ==
    IF len(column) # len(index) THEN Err("IndexError")
    ELSE Ok(DaskArray(column.dtype, take_rows(column.data, index.data)))

\* {col: f(self[col]) for col in names}: the first error, or the dict
plan_ok(size, cols) == [status |-> "ok", size |-> size, cols |-> cols, invalid |-> {}]
plan_err(e, invalid) == [status |-> e, size |-> 0, cols |-> EmptyDict, invalid |-> invalid]

\* get_catalog_subset up to the call of _from_columns
get_catalog_subset(parent, id, index0) ==
    LET index == IF index0.kind \in {"dask", "accessor"}
                 THEN NdArray(index0.dtype, index0.data)       \* parent.compute(index)
                 ELSE IF index0.kind = "list"
                 THEN NdArray(index0.dtype, index0.data)       \* numpy.array(index)
                 ELSE index0
        names == set(columns(parent))
        got == [col \in names |-> getitem_str(parent, id, col)]
        cut == [col \in names |->
                   IF got[col].status = "ok" THEN take(got[col].value, index) ELSE got[col]]
    IN  IF parent.size = NotImplemented THEN plan_err("TypeError", {})   \* len(parent)
        ELSE IF len(index) # parent.size THEN plan_err("LengthMismatch", {})  \* ValueError
        ELSE IF index.dtype # "?" THEN plan_err("TypeMismatch", {})      \* ValueError
        ELSE IF \E col \in names : cut[col].status # "ok"
             THEN plan_err((CHOOSE e \in {cut[col].status : col \in names} : e # "ok"), {})
        ELSE plan_ok(index_sum(index.data), [col \in names |-> cut[col].value])

\* __getitem__ that reports the first invalid name only
getitem_list_first_invalid(self, id, sel) ==
    LET invalid == sel \ set(columns(self))
        got == [col \in sel |-> getitem_str(self, id, col)]
    IN  IF invalid # {} THEN plan_err("UnknownColumn", {FirstName(invalid)})
        ELSE IF \E col \in sel : got[col].status # "ok"
             THEN plan_err((CHOOSE e \in {got[col].status : col \in sel} : e # "ok"), {})
        ELSE plan_ok(self.size, [col \in sel |-> got[col].value])

\* CatalogSourceBase.__getitem__, list of column names, up to _from_columns
getitem_list(self, id, sel) ==
    LET invalid == sel \ set(columns(self))
        got == [col \in sel |-> getitem_str(self, id, col)]
    IN  IF invalid # {} THEN plan_err("UnknownColumn", invalid)         \* KeyError
        ELSE IF \E col \in sel : got[col].status # "ok"
             THEN plan_err((CHOOSE e \in {got[col].status : col \in sel} : e # "ok"), {})
        ELSE plan_ok(self.size, [col \in sel |-> got[col].value])

\* the integer a decimal string denotes
IntRange == (0 - (MaxSize + 2)) .. (MaxSize + 2)
int(str) == CHOOSE i \in IntRange : ToString(i) = str

\* integer indexing that does not count an index below zero from the end
row_of_nowrap(i, n) == IF 0 <= i /\ i < n THEN i + 1 ELSE 0

\* the row (1-based) an integer index denotes in an array of n rows; an
\* index below zero counts from the end; 0: out of bounds
row_of(i, n) ==
    IF 0 <= i /\ i < n THEN i + 1
    ELSE IF 0 - n <= i /\ i < 0 THEN n + i + 1
    ELSE 0

\* slice.indices(n) for a slice of step 1: the bound b as a position 0 .. n
slice_bound(b, n, default) ==
    IF b = "None" THEN default
    ELSE LET i == int(b)
         IN  IF i < 0 THEN (IF n + i < 0 THEN 0 ELSE n + i)
             ELSE IF i > n THEN n ELSE i

\* the rows set by index[sel] = True (0 among them: IndexError)
rows_selected(sel, n) ==
    IF sel.kind = "slice"
    THEN {i \in 1 .. n : slice_bound(sel.data[1], n, 0) < i
                          /\ i <= slice_bound(sel.data[2], n, n)}
    ELSE {row_of(int(sel.data[j]), n) : j \in DOMAIN sel.data}

\* index = numpy.zeros(self.size, dtype='?'); index[sel] = True
zeros_set_true(sel, n) ==
    LET rows == rows_selected(sel, n)
    IN  IF 0 \in rows THEN Err("IndexError")
        ELSE Ok(NdArray("?", [i \in 1 .. n |-> IF i \in rows THEN "True" ELSE "False"]))

\* all(isinstance(ss, string_types) for ss in sel): true of the empty list
all_strings(sel) == sel.dtype = "U" \/ sel.data = <<>>

\* CatalogSourceBase.__getitem__ for a selector that is not a string, up to
\* _from_columns
getitem_index(self, id, sel) ==
    IF sel.kind \in {"slice", "list"}
    THEN IF sel.kind = "list" /\ all_strings(sel)
         THEN getitem_list(self, id, set(sel.data))
         ELSE IF sel.kind = "list" /\ sel.dtype # "i"
         THEN plan_err("InvalidSelector", {})                    \* KeyError
         ELSE IF self.size = NotImplemented
         THEN plan_err("SizeRequired", {})                       \* ValueError
         ELSE LET index == zeros_set_true(sel, self.size)
              IN  IF index.status # "ok" THEN plan_err(index.status, {})
                  ELSE get_catalog_subset(self, id, index.value)
    ELSE IF ~isscalar(sel) THEN get_catalog_subset(self, id, sel)
    ELSE plan_err("InvalidSelector", {})                         \* KeyError

\* CatalogSource.copy up to _from_columns ("returned": the ValueError object
\* is returned to the caller, not raised)
copy(self, id) ==
    LET names == set(columns(self))
        got == [col \in names |-> getitem_str(self, id, col)]
    IN  IF self.size = NotImplemented THEN plan_err("returned ValueError", {})
        ELSE IF \E col \in names : got[col].status # "ok"
             THEN plan_err((CHOOSE e \in {got[col].status : col \in names} : e # "ok"), {})
        ELSE plan_ok(self.size, [col \in names |-> got[col].value])

\* comm.allreduce(self.size): the sum over the ranks of round k
RECURSIVE allreduce_upto(_, _, _)
allreduce_upto(c, k, n) ==
    IF n = 0 THEN 0 ELSE c[n - 1][k] + allreduce_upto(c, k, n - 1)
allreduce(c, k) == allreduce_upto(c, k, NRanks)

\* a size setter that stores the value
size_setter_stores(self, value) == [status |-> "ok", cat |-> [self EXCEPT !.size = value]]

\* CatalogSource.size, the setter of the property
size_setter(self, value) == [status |-> "ImmutableAttribute", cat |-> self]  \* RuntimeError

\* update_csize without the check of the size
update_csize_never_raises(self) == FALSE

\* CatalogSource.update_csize: the check made before the reduction
update_csize_raises(self) == self.size = NotImplemented

\* update_csize that stores the local size, without the reduction
update_csize_local(self, c, k) == self.size

\* CatalogSource.update_csize: the value stored in _csize, given the
\* contributions of all ranks to round k
update_csize(self, c, k) == allreduce(c, k)

(***************************************************************************)
(* to_mesh.  The keyword arguments that to_mesh examines are a value whose *)
(* rows are Nmesh, BoxSize, window, weight and selection ("None": not      *)
(* passed); the mesh returned names the catalog and holds the parameters   *)
(* it was made with.                                                       *)
(***************************************************************************)
Kwargs(Nmesh, BoxSize, window, weight, selection) ==
    [kind |-> "kwargs", dtype |-> "f4",
     data |-> <<Nmesh, BoxSize, window, weight, selection>>, catalog |-> 0]

\* pmesh.window.methods, the names of the windows
methods == {"cic", "tsc"}

\* CatalogMesh(source, Nmesh=, BoxSize=, dtype=, weight=, selection=, ...)
\* with r.window set: a view of the catalog, which it leaves as it is
CatalogMesh(source, Nmesh, BoxSize, dtype, weight, selection, window) ==
    [kind |-> "mesh", dtype |-> dtype,
     data |-> <<Nmesh, BoxSize, window, weight, selection>>, catalog |-> source]

\* to_mesh that keeps the parameters it was given in attrs
to_mesh_stores_parameters(self, id, a, kw) ==
    LET Nmesh == kw.data[1]
        BoxSize == kw.data[2]
        window == kw.data[3]
        weight == kw.data[4]
        selection == kw.data[5]
        fail(e) == [status |-> e, value |-> NoValue, cat |-> self, attrs |-> a]
    IN  IF \E col \in {weight, selection} : col \notin set(columns(self))
        THEN fail("UnknownColumn")
        ELSE IF window \notin methods THEN fail("InvalidWindow")
        ELSE IF BoxSize = "None" /\ "BoxSize" \notin DOMAIN a THEN fail("MissingParameter")
        ELSE IF Nmesh = "None" /\ "Nmesh" \notin DOMAIN a THEN fail("MissingParameter")
        ELSE LET B == IF BoxSize = "None" THEN a["BoxSize"] ELSE BoxSize
                 N == IF Nmesh = "None" THEN a["Nmesh"] ELSE Nmesh
             IN  [status |-> "ok",
                  value |-> CatalogMesh(id, N, B, kw.dtype, weight, selection, window),
                  cat |-> self,
                  attrs |-> dict_update(a, ("BoxSize" :> B) @@ ("Nmesh" :> N))]

\* CatalogSourceBase.to_mesh on catalog ``id`` whose attrs hold ``a``; every
\* error is a ValueError
to_mesh(self, id, a, kw) ==
    LET Nmesh == kw.data[1]
        BoxSize == kw.data[2]
        window == kw.data[3]
        weight == kw.data[4]
        selection == kw.data[5]
        fail(e) == [status |-> e, value |-> NoValue, cat |-> self, attrs |-> a]
    IN  IF \E col \in {weight, selection} : col \notin set(columns(self))
        THEN fail("UnknownColumn")
        ELSE IF window \notin methods THEN fail("InvalidWindow")
        ELSE IF BoxSize = "None" /\ "BoxSize" \notin DOMAIN a THEN fail("MissingParameter")
        ELSE IF Nmesh = "None" /\ "Nmesh" \notin DOMAIN a THEN fail("MissingParameter")
        ELSE LET B == IF BoxSize = "None" THEN a["BoxSize"] ELSE BoxSize
                 N == IF Nmesh = "None" THEN a["Nmesh"] ELSE Nmesh
             IN  [status |-> "ok",
                  value |-> CatalogMesh(id, N, B, kw.dtype, weight, selection, window),
                  cat |-> self, attrs |-> a]

(***************************************************************************)
(* compute and the cache of the Root's first catalog: ``gateway`` holds    *)
(* use_cache, whether _cache exists and what it has stored, and the        *)
(* arguments and the result of the last call of compute.  A result is the  *)
(* tuple dask.compute returned or, unwrapped, its only element.            *)
(***************************************************************************)
Tuple(values) == [tuple |-> TRUE, values |-> values]
Bare(value) == [tuple |-> FALSE, values |-> <<value>>]

\* the state a constructor with use_cache=False leaves: no _cache
NoGateway ==
    [use_cache |-> FALSE, has_cache |-> FALSE, cache |-> EmptyDict,
     args |-> <<>>, result |-> Tuple(<<>>)]

\* the key of a dask collection in the cache: its graph
cache_key(array) == DaskArray(array.dtype, array.data)

\* dask.compute(*args): a dask collection is computed, anything else is
\* passed through
dask_compute(args) ==
    [i \in DOMAIN args |->
        IF isinstance_da_Array(args[i]) THEN NdArray(args[i].dtype, args[i].data)
        ELSE args[i]]

\* the same inside ``with self._cache``: what the cache has is taken from it
dask_compute_cached(cache, args) ==
    [i \in DOMAIN args |->
        IF isinstance_da_Array(args[i]) /\ cache_key(args[i]) \in DOMAIN cache
        THEN cache[cache_key(args[i])]
        ELSE dask_compute(args)[i]]

\* what the cache has stored after the call
cache_after(cache, args) ==
    LET keys == {cache_key(args[i]) : i \in {j \in DOMAIN args : isinstance_da_Array(args[j])}}
    IN  [k \in (DOMAIN cache) \cup keys |->
            IF k \in DOMAIN cache THEN cache[k] ELSE NdArray(k.dtype, k.data)]

\* compute that returns the tuple as it is
compute_no_unwrap(g, args) ==
    Tuple(IF g.use_cache /\ g.has_cache THEN dask_compute_cached(g.cache, args)
          ELSE dask_compute(args))

\* CatalogSourceBase.compute
compute(g, args) ==
    LET toret == IF g.use_cache /\ g.has_cache
                 THEN dask_compute_cached(g.cache, args)
                 ELSE dask_compute(args)
    IN  IF Len(toret) = 1 THEN Bare(toret[1]) ELSE Tuple(toret)

\* CatalogSourceBase.use_cache, the setter; importable: dask.cache imports
use_cache_setter(g, val, importable) ==
    [g EXCEPT !.use_cache = val,
              !.has_cache = IF val THEN (@ \/ importable) ELSE FALSE,
              !.cache = IF val THEN @ ELSE EmptyDict]

(***************************************************************************)
(* DataSource.read, the default: ``reader`` is the state of one collective *)
(* call of read(columns, stat) on a data source whose readall returns      *)
(* ``file``, a list of columns (each the number of its rows and its        *)
(* dtype): the position of every rank in the generator, its locals         *)
(* shape_and_dtype, Ntot and data, its stat['Ntot'], and the number of     *)
(* broadcasts the root has sent.                                           *)
(***************************************************************************)
\* Python's None where a number is expected
NoNtot == -1

NoReader ==
    [called |-> FALSE, columns |-> <<>>, file |-> <<>>, sent |-> 0,
     pc |-> [r \in Ranks |-> "idle"],
     shape_and_dtype |-> [r \in Ranks |-> <<>>],
     Ntot |-> [r \in Ranks |-> NoNtot],
     stat |-> [r \in Ranks |-> NoNtot],
     data |-> [r \in Ranks |-> <<>>]]

\* a column read: its rows counted and its dtype
Column(n, dtype) == [shape |-> n, dtype |-> dtype]

\* read, from the first next() of the generator to the first broadcast: the
\* root reads and checks, the other ranks set their locals to None
read_start(rd, r) ==
    IF r = 0
    THEN IF Len(rd.columns) = 0
         THEN [rd EXCEPT !.pc[r] = "RuntimeError"]
         ELSE LET data == rd.file                              \* self.readall(columns)
                  shape_and_dtype == [i \in DOMAIN data |-> data[i]]
                  Ntot == data[1].shape
              IN  IF \E i \in DOMAIN data : data[i].shape # Ntot
                  THEN [rd EXCEPT !.pc[r] = "RuntimeError", !.data[r] = data,
                                  !.shape_and_dtype[r] = shape_and_dtype,
                                  !.Ntot[r] = Ntot]
                  ELSE [rd EXCEPT !.pc[r] = "bcast1", !.data[r] = data,
                                  !.shape_and_dtype[r] = shape_and_dtype,
                                  !.Ntot[r] = Ntot]
    ELSE [rd EXCEPT !.pc[r] = "bcast1"]

\* rank r can return from its k-th comm.bcast: the root has sent it
bcast_ready(rd, r, k) == r = 0 \/ rd.sent >= k

\* shape_and_dtype = self.comm.bcast(shape_and_dtype)
read_bcast1(rd, r) ==
    [rd EXCEPT !.pc[r] = "bcast2",
               !.sent = IF r = 0 THEN 1 ELSE @,
               !.shape_and_dtype[r] = rd.shape_and_dtype[0]]

\* stat['Ntot'] = self.comm.bcast(Ntot), the placeholders of the ranks
\* that did not read, and the yield
read_bcast2(rd, r) ==
    [rd EXCEPT !.pc[r] = "yield",
               !.sent = IF r = 0 THEN 2 ELSE @,
               !.stat[r] = rd.Ntot[0],
               !.data[r] = IF r # 0
                           THEN [i \in DOMAIN rd.shape_and_dtype[r] |->
                                    Column(0, rd.shape_and_dtype[r][i].dtype)]
                           ELSE @]

(***************************************************************************)
(* Extension points and plugins.  ``plugins`` holds the registries of the  *)
(* extension points (plugin_name -> class), the class statements executed  *)
(* so far, in order, and the result of the last create.  A class is the    *)
(* number of its class statement; what a class statement gives the         *)
(* metaclass is the extension point the class derives from, plugin_name    *)
(* ("": the class has none), whether the class has an __init__ and whether *)
(* its register() raises (as the one of PluginInterface does).  The        *)
(* metaclass adds the error that ended the statement ("": none) and what   *)
(* it did to the class.                                                    *)
(***************************************************************************)
ExtensionPoints == {"DataSource", "Painter"}

PluginClass(ep, plugin_name, has_init, register_raises) ==
    [ep |-> ep, plugin_name |-> plugin_name, has_init |-> has_init,
     register_raises |-> register_raises,
     error |-> "", schema |-> FALSE, registered |-> FALSE, autoassigned |-> FALSE]

NoCreated == [ep |-> "", plugin_name |-> "", status |-> "", klass |-> 0]

\* the registries are empty Namespaces when the module is imported
NoPlugins ==
    [registry |-> [ep \in ExtensionPoints |-> [n \in {} |-> 0]],
     classes |-> <<>>,
     created |-> NoCreated]

\* PluginMount.__init__ for class number id: the registry and the class
\* after it
PluginMount_init(registry, id, cls) ==
    IF cls.plugin_name = ""                                    \* not hasattr
    THEN [registry |-> registry, cls |-> [cls EXCEPT !.error = "RuntimeError"]]
    ELSE IF cls.plugin_name \notin DOMAIN registry[cls.ep]
    THEN IF ~cls.has_init
         THEN [registry |-> registry, cls |-> [cls EXCEPT !.error = "ValueError"]]
         ELSE [registry |->
                   [registry EXCEPT ![cls.ep] = (cls.plugin_name :> id) @@ @],
               cls |->
                   [cls EXCEPT !.schema = TRUE,
                               !.registered = TRUE,                \* cls.register()
                               !.error = IF cls.register_raises
                                         THEN "NotImplementedError" ELSE "",
                               !.autoassigned = ~cls.register_raises]]
    ELSE [registry |-> registry, cls |-> cls]

\* PluginMount.create
create(registry, ep, plugin_name) ==
    IF plugin_name \notin DOMAIN registry[ep]
    THEN [ep |-> ep, plugin_name |-> plugin_name, status |-> "ValueError", klass |-> 0]
    ELSE [ep |-> ep, plugin_name |-> plugin_name, status |-> "ok",
          klass |-> registry[ep][plugin_name]]

(***************************************************************************)
(* Inputs of the calls.                                                    *)
(***************************************************************************)
\* the names the caller reads and assigns, and the names it selects
ColNames == {"A", "Weight"}
Selections == {{}, {"Weight"}, {"A"}, {"A", "B"}}
RowVals == {"x", "y"}
Scalars == {"x"}

\* the array of n rows that starts with v and in which neighbouring rows
\* differ
Rows(n, v) ==
    [i \in 1 .. n |-> IF i % 2 = 1 THEN v ELSE CHOOSE w \in RowVals : w # v]

\* the values assigned to a column of a catalog: every scalar, the arrays
\* of the catalog's length and an array that is one row longer (the arrays
\* of up to MaxSize rows when the catalog has no size)
SetValues(self) ==
    {Scalar(v) : v \in Scalars}
    \cup (IF self.size = NotImplemented
          THEN {NdArray("U", Rows(n, "x")) : n \in 0 .. MaxSize}
          ELSE {NdArray("U", Rows(self.size, v)) : v \in RowVals}
               \cup {NdArray("U", Rows(self.size + 1, "x"))})

\* the rank whose rank-local calls are explored; the other ranks make the
\* collective-sensitive calls of the program only
Root == 0

\* the boolean arrays rank r indexes a catalog of n rows with.  On Root: the
\* masks that keep every row, no row and all rows but the first, and a mask
\* that is one row longer than the catalog.  The data of another rank is
\* its own: rank r keeps the first r rows.
Masks(r, self) ==
    IF self.size = NotImplemented THEN {NdArray("?", <<"True">>)}
    ELSE LET n == self.size
         IN  {NdArray("?", d) : d \in
                IF r = Root
                THEN {[i \in 1 .. n |-> "True"],
                      [i \in 1 .. n |-> "False"],
                      [i \in 1 .. n |-> IF i = 1 THEN "False" ELSE "True"],
                      [i \in 1 .. n + 1 |-> "True"]}
                ELSE {[i \in 1 .. n |-> IF i <= r THEN "True" ELSE "False"]}}

\* the selectors a catalog is indexed with in catalog[selector]: boolean
\* masks of the catalog's length as an array, a dask array, the accessor of
\* a boolean column and a plain list; a mask one row longer; an array of
\* strings; an integer; lists of integers (in bounds with a repetition and
\* out of order, negative, out of bounds) and two slices
AllTrue(n) == [i \in 1 .. n |-> "True"]
ButFirst(n) == [i \in 1 .. n |-> IF i = 1 THEN "False" ELSE "True"]
Selectors(id, self) ==
    IF self.size = NotImplemented
    THEN {NdArray("?", AllTrue(1)), List("?", AllTrue(1)), List("i", <<"0">>),
          Slice("None", "1"), Scalar("1")}
    ELSE LET n == self.size
         IN  {NdArray("?", ButFirst(n)), DaskArray("?", ButFirst(n)),
              ColumnAccessor(id, DaskArray("?", AllTrue(n))),
              List("?", ButFirst(n)), NdArray("?", AllTrue(n + 1)),
              NdArray("U", Rows(n, "x")), Scalar("1"),
              List("i", <<ToString(n - 1), "0", "0">>), List("i", <<"-1">>),
              List("i", <<ToString(n)>>), Slice("1", "None"), Slice("None", "1")}
\* the arguments of compute: dask arrays, an accessor and a numpy array, at
\* most MaxArgs of them
Handles ==
    {DaskArray("U", <<"x">>), DaskArray("U", <<"y">>),
     ColumnAccessor(1, DaskArray("?", <<"True">>)), NdArray("U", <<"x">>)}
ArgLists == UNION {[1 .. k -> Handles] : k \in 0 .. MaxArgs}

\* the keyword arguments of to_mesh and the attrs the caller sets for it
MeshKeys == {"BoxSize", "Nmesh"}
MeshArgs ==
    {Kwargs(Nmesh, BoxSize, window, weight, selection) :
        Nmesh \in {"None", "v"}, BoxSize \in {"None", "v"}, window \in {"cic", "ngp"},
        weight \in {"Weight", "A", "Z"}, selection \in {"Selection", "Z"}}

\* the columns asked of read, and what readall returns for them: one column
\* per name, of any number of rows up to MaxSize
ReadColumns == {<<>>, <<"A">>, <<"A", "B">>}
Files(cols) == [DOMAIN cols -> {Column(n, "f8") : n \in 0 .. MaxSize}]

\* the class statements of the program and the names it creates plugins by
PluginNames == {"a", "b"}
PluginClasses ==
    {PluginClass(ep, n, i, x) :
        ep \in ExtensionPoints, n \in {"", "a"}, i \in BOOLEAN, x \in BOOLEAN}
    \cup {PluginClass(ep, "b", TRUE, FALSE) : ep \in ExtensionPoints}

\* the values the caller tries to store in catalog.size
SizeValues == {0, MaxSize + 1}
AttrKeys == {"k"}
AttrVals == {"v"}
\* the class of the initial catalog and the attrs its constructor stored
InitClass == "SubCatalog"
InitAttrs == "k" :> "u"

(***************************************************************************)
(* The record of the last call that returned or raised, the call a rank is *)
(* blocked in, and the entries of the SPMD program.                        *)
(***************************************************************************)
NoLast ==
    [rank |-> -1, op |-> "none", cat |-> 0, cls |-> "", name |-> "", arg |-> NoValue,
     sel |-> {}, index |-> NoValue, status |-> "", value |-> NoValue,
     new |-> 0, invalid |-> {}]

NoPending ==
    [op |-> "none", cat |-> 0, new |-> 0, sel |-> {}, index |-> NoValue,
     plan |-> plan_ok(0, EmptyDict)]

Entry(op, c, sel) == [op |-> op, cat |-> c, sel |-> sel]

(***************************************************************************)
(* Initial state: every rank has constructed catalog 1, an instance of the *)
(* subclass, with MaxSize rows on every rank or with no size yet on any    *)
(* rank; the constructor has run update_csize when the size is known.      *)
(***************************************************************************)
Init ==
    \E known \in BOOLEAN :
        LET cls == InitClass
            a0 == InitAttrs
            size == [r \in Ranks |-> IF known THEN MaxSize ELSE NotImplemented]
            c0 == [r \in Ranks |->
                     IF init_calls_update_csize(size[r]) THEN <<size[r]>> ELSE <<>>]
            self == [r \in Ranks |-> Catalog(cls, size[r], NoCsize, EmptyDict, 1)]
        IN  /\ contrib = c0
            /\ cats = [r \in Ranks |->
                         1 :> [self[r] EXCEPT !.csize =
                                 IF init_calls_update_csize(size[r])
                                 THEN update_csize(self[r], c0, 1) ELSE NoCsize]]
            /\ attrs = [r \in Ranks |-> 1 :> a0]
            /\ prog = <<>>
            /\ ip = [r \in Ranks |-> 0]
            /\ pc = [r \in Ranks |-> "idle"]
            /\ pending = [r \in Ranks |-> NoPending]
            /\ last = NoLast
            /\ nlocal = 0
            /\ gateway = NoGateway
            /\ reader = NoReader
            /\ plugins = NoPlugins

(***************************************************************************)
(* Rank-local calls.  A run makes at most MaxCalls calls of the program:   *)
(* the collective-sensitive calls in ``prog`` and the rank-local calls.    *)
(* The ranks act on each other only inside comm.allreduce, so the runs are *)
(* explored one call of the program at a time: rank r starts the next call *)
(* when every other rank is through the calls made so far, and the ranks   *)
(* that follow it into the call, and those that return from the            *)
(* all-reduce, do so in the order of their ranks.  An error raised on one  *)
(* rank is fatal to the whole run: no rank goes on after it.               *)
(***************************************************************************)
Running == \A q \in Ranks : pc[q] # "failed"

Quiescent(r) == \A q \in Ranks \ {r} : pc[q] = "idle" /\ ip[q] = Len(prog)

Local(r, c) ==
    /\ UNCHANGED <<gateway, reader, plugins>>
    /\ Running
    /\ pc[r] = "idle"
    /\ ip[r] = Len(prog)
    /\ Quiescent(r)
    /\ c \in DOMAIN cats[r]
    /\ Len(prog) + nlocal < MaxCalls
    /\ nlocal' = nlocal + 1

\* catalog[name]
GetColumn(r, c, name) ==
    /\ Local(r, c)
    /\ LET res == getitem_str(cats[r][c], c, name)
       IN  last' = [NoLast EXCEPT !.rank = r, !.op = "get", !.cat = c, !.name = name,
                                  !.status = res.status, !.value = res.value]
    /\ UNCHANGED <<cats, attrs, prog, ip, pc, pending, contrib>>

\* catalog[name] = value
SetColumn(r, c, name, value) ==
    /\ Local(r, c)
    /\ LET res == setitem(cats[r][c], name, value)
       IN  /\ cats' = [cats EXCEPT ![r][c] = res.cat]
           /\ last' = [NoLast EXCEPT !.rank = r, !.op = "set", !.cat = c, !.name = name,
                                     !.arg = value, !.status = res.status]
    /\ UNCHANGED <<attrs, prog, ip, pc, pending, contrib>>

\* catalog.size = value
SetSize(r, c, value) ==
    /\ Local(r, c)
    /\ LET res == size_setter(cats[r][c], value)
       IN  /\ cats' = [cats EXCEPT ![r][c] = res.cat]
           /\ last' = [NoLast EXCEPT !.rank = r, !.op = "setsize", !.cat = c,
                                     !.new = value, !.status = res.status]
    /\ UNCHANGED <<attrs, prog, ip, pc, pending, contrib>>

\* catalog.attrs[key] = val
SetAttr(r, c, key, val) ==
    /\ Local(r, c)
    /\ LET a == cats[r][c].attrs
       IN  attrs' = [attrs EXCEPT ![r][a] = dict_update(@, key :> val)]
    /\ last' = [NoLast EXCEPT !.rank = r, !.op = "setattr", !.cat = c, !.name = key,
                              !.status = "ok"]
    /\ UNCHANGED <<cats, prog, ip, pc, pending, contrib>>

\* del catalog.attrs[key]
DelAttr(r, c, key) ==
    /\ Local(r, c)
    /\ key \in DOMAIN attrs[r][cats[r][c].attrs]
    /\ LET a == cats[r][c].attrs
       IN  attrs' = [attrs EXCEPT ![r][a] = [k \in (DOMAIN @) \ {key} |-> @[k]]]
    /\ last' = [NoLast EXCEPT !.rank = r, !.op = "delattr", !.cat = c, !.name = key,
                              !.status = "ok"]
    /\ UNCHANGED <<cats, prog, ip, pc, pending, contrib>>

(***************************************************************************)
(* Collective-sensitive calls.  All ranks run the same program: ``prog``   *)
(* is the sequence of such calls made so far by the rank that is furthest, *)
(* ``ip[r]`` the number of them rank r has made; the catalog created by    *)
(* the i-th call is catalog i + 1 on every rank.  The row index of a       *)
(* subset is rank-local data.  A rank on which such a call raises stops    *)
(* (the caller treats the error as fatal to the run).                      *)
(***************************************************************************)
Follow(r, e) ==
    /\ UNCHANGED <<gateway, reader, plugins>>
    /\ Running
    /\ pc[r] = "idle"
    /\ e.cat \in DOMAIN cats[r]
    /\ IF ip[r] < Len(prog)
       THEN /\ \A q \in Ranks : q < r => ip[q] > ip[r]
            /\ prog[ip[r] + 1] = e
            /\ prog' = prog
       ELSE /\ Quiescent(r)
            /\ Len(prog) + nlocal < MaxCalls
            /\ prog' = Append(prog, e)
    /\ ip' = [ip EXCEPT ![r] = @ + 1]

NewId(r) == ip[r] + 2

\* the call raises on rank r
Raise(r, rec, e, invalid) ==
    /\ pc' = [pc EXCEPT ![r] = "failed"]
    /\ last' = [rec EXCEPT !.status = e, !.invalid = invalid]
    /\ pending' = [pending EXCEPT ![r] = NoPending]
    /\ UNCHANGED <<cats, attrs, contrib>>

\* the rest of _from_columns after the constructor, toret.attrs.update and
\* the return of the new catalog
Install(r, rec, new, parent, size, csize, cols) ==
    LET pa == cats[r][parent].attrs
        res == from_columns(new, size, csize, cols, pa)
        a == res.cat.attrs
        old == IF a \in DOMAIN attrs[r] THEN attrs[r][a] ELSE EmptyDict
    IN  IF res.status # "ok" THEN Raise(r, rec, res.status, {})
        ELSE /\ cats' = [cats EXCEPT ![r] = @ @@ (new :> res.cat)]
             /\ attrs' = [attrs EXCEPT ![r] =
                            (a :> dict_update(old, attrs[r][pa])) @@ @]
             /\ last' = [rec EXCEPT !.status = "ok", !.new = new]
             /\ pc' = [pc EXCEPT ![r] = "idle"]
             /\ pending' = [pending EXCEPT ![r] = NoPending]
             /\ UNCHANGED contrib

ReturnedError == [kind |-> "ValueError", dtype |-> "", data |-> <<>>, catalog |-> 0]

\* a derived view: validate and compose, then construct the new catalog;
\* the constructor blocks in the all-reduce when the size is known
Derive(r, rec, plan) ==
    IF plan.status = "returned ValueError"
    THEN /\ last' = [rec EXCEPT !.status = "ok", !.value = ReturnedError]
         /\ UNCHANGED <<cats, attrs, pc, pending, contrib>>
    ELSE IF plan.status # "ok" THEN Raise(r, rec, plan.status, plan.invalid)
    ELSE IF init_calls_update_csize(plan.size)
    THEN /\ contrib' = [contrib EXCEPT ![r] = Append(@, plan.size)]
         /\ pc' = [pc EXCEPT ![r] = "wait"]
         /\ pending' = [pending EXCEPT ![r] =
                          [op |-> rec.op, cat |-> rec.cat, new |-> NewId(r),
                           sel |-> rec.sel, index |-> rec.index, plan |-> plan]]
         /\ UNCHANGED <<cats, attrs, last>>
    ELSE /\ Install(r, rec, NewId(r), rec.cat, plan.size, NoCsize, plan.cols)

\* catalog[[name, ...]]
ColumnSubset(r, c, sel) ==
    /\ Follow(r, Entry("colsubset", c, sel))
    /\ Derive(r, [NoLast EXCEPT !.rank = r, !.op = "colsubset", !.cat = c, !.sel = sel],
              getitem_list(cats[r][c], c, sel))
    /\ UNCHANGED nlocal

\* catalog[index] with a boolean array
RowSubset(r, c, index) ==
    /\ Follow(r, Entry("subset", c, {}))
    /\ Derive(r, [NoLast EXCEPT !.rank = r, !.op = "subset", !.cat = c, !.index = index],
              get_catalog_subset(cats[r][c], c, index))
    /\ UNCHANGED nlocal

\* catalog[selector] with a selector that is not a string; the selector is
\* written in the program, the same on every rank
GetItem(r, c, sel) ==
    /\ Follow(r, Entry("getitem", c, sel))
    /\ Derive(r, [NoLast EXCEPT !.rank = r, !.op = "getitem", !.cat = c, !.index = sel],
              getitem_index(cats[r][c], c, sel))
    /\ UNCHANGED nlocal

\* catalog.copy()
Copy(r, c) ==
    /\ Follow(r, Entry("copy", c, {}))
    /\ Derive(r, [NoLast EXCEPT !.rank = r, !.op = "copy", !.cat = c],
              copy(cats[r][c], c))
    /\ UNCHANGED nlocal

\* catalog.update_csize()
UpdateCsize(r, c) ==
    /\ Follow(r, Entry("update", c, {}))
    /\ LET rec == [NoLast EXCEPT !.rank = r, !.op = "update", !.cat = c]
       IN  IF update_csize_raises(cats[r][c])
           THEN Raise(r, rec, "SizeRequired", {})               \* ValueError
           ELSE /\ contrib' = [contrib EXCEPT ![r] = Append(@, cats[r][c].size)]
                /\ pc' = [pc EXCEPT ![r] = "wait"]
                /\ pending' = [pending EXCEPT ![r] =
                                 [NoPending EXCEPT !.op = "update", !.cat = c]]
                /\ UNCHANGED <<cats, attrs, last>>
    /\ UNCHANGED nlocal

\* comm.allreduce returns on rank r: every rank has contributed to the round
AllreduceReturn(r) ==
    /\ UNCHANGED <<gateway, reader, plugins>>
    /\ Running
    /\ pc[r] = "wait"
    /\ \A q \in Ranks : q < r => pc[q] # "wait"
    /\ \A q \in Ranks : Len(contrib[q]) >= Len(contrib[r])
    /\ LET k == Len(contrib[r])
           p == pending[r]
           rec == [NoLast EXCEPT !.rank = r, !.op = p.op, !.cat = p.cat,
                                 !.sel = p.sel, !.index = p.index]
       IN  IF p.op = "update"
           THEN /\ cats' = [cats EXCEPT ![r][p.cat].csize =
                              update_csize(cats[r][p.cat], contrib, k)]
                /\ last' = [rec EXCEPT !.status = "ok"]
                /\ pc' = [pc EXCEPT ![r] = "idle"]
                /\ pending' = [pending EXCEPT ![r] = NoPending]
                /\ UNCHANGED <<attrs, contrib>>
           ELSE Install(r, rec, p.new, p.cat, p.plan.size,
                        update_csize(cats[r][p.cat], contrib, k), p.plan.cols)
    /\ UNCHANGED <<prog, ip, nlocal>>

Next ==
    \/ \E c \in CatIds, name \in ColNames : GetColumn(Root, c, name)
    \/ \E c \in DOMAIN cats[Root], name \in ColNames :
          \E value \in SetValues(cats[Root][c]) : SetColumn(Root, c, name, value)
    \/ \E c \in CatIds, key \in AttrKeys, val \in AttrVals : SetAttr(Root, c, key, val)
    \/ \E c \in CatIds, key \in AttrKeys : DelAttr(Root, c, key)
    \/ \E c \in CatIds, value \in SizeValues : SetSize(Root, c, value)
    \/ \E r \in Ranks, c \in CatIds, sel \in Selections : ColumnSubset(r, c, sel)
    \/ \E r \in Ranks : \E c \in DOMAIN cats[r] :
          \E index \in Masks(r, cats[r][c]) : RowSubset(r, c, index)
    \/ \E r \in Ranks, c \in CatIds : Copy(r, c)
    \/ \E r \in Ranks, c \in CatIds : UpdateCsize(r, c)
    \/ \E r \in Ranks : AllreduceReturn(r)

Spec == Init /\ [][Next]_vars

(***************************************************************************)
(* The runs of a program that indexes catalogs with selectors.             *)
(***************************************************************************)
NextIndex ==
    \/ \E c \in DOMAIN cats[Root], name \in ColNames :
          \E value \in SetValues(cats[Root][c]) : SetColumn(Root, c, name, value)
    \/ \E r \in Ranks : \E c \in DOMAIN cats[r] :
          \E sel \in Selectors(c, cats[r][c]) : GetItem(r, c, sel)
    \/ \E r \in Ranks : AllreduceReturn(r)

SpecIndex == Init /\ [][NextIndex]_vars

(***************************************************************************)
(* The runs of a program that sets columns and attrs and asks for meshes.  *)
(***************************************************************************)
\* catalog.to_mesh(**kw)
ToMesh(r, c, kw) ==
    /\ Local(r, c)
    /\ LET a == cats[r][c].attrs
           res == to_mesh(cats[r][c], c, attrs[r][a], kw)
       IN  /\ cats' = [cats EXCEPT ![r][c] = res.cat]
           /\ attrs' = [attrs EXCEPT ![r][a] = res.attrs]
           /\ last' = [NoLast EXCEPT !.rank = r, !.op = "to_mesh", !.cat = c,
                                     !.arg = kw, !.status = res.status,
                                     !.value = res.value]
    /\ UNCHANGED <<prog, ip, pc, pending, contrib>>

NextMesh ==
    \/ \E c \in DOMAIN cats[Root], name \in ColNames :
          \E value \in SetValues(cats[Root][c]) : SetColumn(Root, c, name, value)
    \/ \E c \in CatIds, key \in MeshKeys, val \in AttrVals : SetAttr(Root, c, key, val)
    \/ \E c \in CatIds, key \in MeshKeys : DelAttr(Root, c, key)
    \/ \E c \in CatIds, kw \in MeshArgs : ToMesh(Root, c, kw)

SpecMesh == Init /\ [][NextMesh]_vars

(***************************************************************************)
(* The runs of a program that looks columns up in classes.                 *)
(***************************************************************************)
\* find_column(cls, name)
FindColumn(r, cls, name) ==
    /\ Local(r, 1)
    /\ LET res == find_column_call(cls, name)
       IN  last' = [NoLast EXCEPT !.rank = r, !.op = "find_column", !.cls = cls,
                                  !.name = name, !.status = res.status,
                                  !.value = res.value]
    /\ UNCHANGED <<cats, attrs, prog, ip, pc, pending, contrib>>

NextResolve == \E cls \in Classes, name \in Names : FindColumn(Root, cls, name)

SpecResolve == Init /\ [][NextResolve]_vars

(***************************************************************************)
(* The runs of a program in which every rank calls read with the same      *)
(* columns, once.  Every rank goes on whenever it can.                      *)
(***************************************************************************)
ReaderUnchanged ==
    UNCHANGED <<cats, attrs, prog, ip, pc, pending, contrib, last, nlocal, gateway,
                plugins>>

\* next(datasource.read(columns, stat)) on every rank
CallRead(cols, file) ==
    /\ ~reader.called
    /\ reader' = [NoReader EXCEPT !.called = TRUE, !.columns = cols, !.file = file,
                                  !.pc = [r \in Ranks |-> "start"]]
    /\ ReaderUnchanged

ReadStart(r) ==
    /\ reader.pc[r] = "start"
    /\ reader' = read_start(reader, r)
    /\ ReaderUnchanged

ReadBcast1(r) ==
    /\ reader.pc[r] = "bcast1"
    /\ bcast_ready(reader, r, 1)
    /\ reader' = read_bcast1(reader, r)
    /\ ReaderUnchanged

ReadBcast2(r) ==
    /\ reader.pc[r] = "bcast2"
    /\ bcast_ready(reader, r, 2)
    /\ reader' = read_bcast2(reader, r)
    /\ ReaderUnchanged

ReadRank(r) == ReadStart(r) \/ ReadBcast1(r) \/ ReadBcast2(r)

NextRead ==
    \/ \E cols \in ReadColumns : \E file \in Files(cols) : CallRead(cols, file)
    \/ \E r \in Ranks : ReadStart(r)
    \/ \E r \in Ranks : ReadBcast1(r)
    \/ \E r \in Ranks : ReadBcast2(r)

SpecRead == Init /\ [][NextRead]_vars /\ \A r \in Ranks : WF_vars(ReadRank(r))

(***************************************************************************)
(* The runs of a program that defines plugin classes and creates plugins.  *)
(***************************************************************************)
PluginsUnchanged ==
    UNCHANGED <<cats, attrs, prog, ip, pc, pending, contrib, last, nlocal, gateway,
                reader>>

\* class X(ExtensionPoint): ...
DefineClass(cls) ==
    /\ Len(plugins.classes) < MaxClasses
    /\ LET id == Len(plugins.classes) + 1
           res == PluginMount_init(plugins.registry, id, cls)
       IN  plugins' = [plugins EXCEPT !.registry = res.registry,
                                      !.classes = Append(@, res.cls)]
    /\ PluginsUnchanged

\* ExtensionPoint.create(plugin_name)
Create(ep, plugin_name) ==
    /\ plugins' = [plugins EXCEPT !.created = create(plugins.registry, ep, plugin_name)]
    /\ PluginsUnchanged

NextPlugins ==
    \/ \E cls \in PluginClasses : DefineClass(cls)
    \/ \E ep \in ExtensionPoints, plugin_name \in PluginNames : Create(ep, plugin_name)

SpecPlugins == Init /\ [][NextPlugins]_vars

(***************************************************************************)
(* The runs of a program that switches the cache on and off and computes.  *)
(***************************************************************************)
\* catalog.use_cache = val
SetUseCache(val, importable) ==
    /\ gateway' = use_cache_setter(gateway, val, importable)
    /\ UNCHANGED <<cats, attrs, prog, ip, pc, pending, contrib, last, nlocal, reader, plugins>>

\* catalog.compute(*args)
Compute(args) ==
    /\ gateway' = [gateway EXCEPT
                      !.args = args,
                      !.result = compute(gateway, args),
                      !.cache = IF gateway.use_cache /\ gateway.has_cache
                                THEN cache_after(@, args) ELSE @]
    /\ UNCHANGED <<cats, attrs, prog, ip, pc, pending, contrib, last, nlocal, reader, plugins>>

NextCompute ==
    \/ \E val \in BOOLEAN, importable \in BOOLEAN : SetUseCache(val, importable)
    \/ \E args \in ArgLists : Compute(args)

SpecCompute == Init /\ [][NextCompute]_vars

(***************************************************************************)
(* Definitions used to state the properties.                               *)
(***************************************************************************)
RECURSIVE SumOver(_, _)
SumOver(S, f) ==
    IF S = {} THEN 0
    ELSE LET x == CHOOSE y \in S : TRUE IN f[x] + SumOver(S \ {x}, f)

\* the number of True entries of a mask
CountTrue(m) == Cardinality({i \in DOMAIN m : m[i] = "True"})

\* a class and all its ancestors, and the column names they declare
RECURSIVE Ancestors(_)
Ancestors(cls) ==
    {cls} \cup UNION {Ancestors(class_bases(cls)[i]) : i \in DOMAIN class_bases(cls)}
DeclaredBy == [cls \in Classes |-> UNION {set(class_dict(k)) : k \in Ancestors(cls)}]
HardNames(cls) == DeclaredBy[cls]

\* the column names visible on a catalog
Visible(self) == HardNames(self.cls) \cup DOMAIN self.overrides

\* the content of the attrs of catalog c on rank r
Attrs(r, c) == attrs[r][cats[r][c].attrs]

\* the same in the next state
AttrsNext(r, c) == attrs'[r][cats'[r][c].attrs]

KnownSize(self) == self.size # NotImplemented

DeriveOps == {"subset", "colsubset", "copy"}

(***************************************************************************)
(* C1: get_catalog_subset(C, m), for a catalog C with known local_size and *)
(* a boolean mask m of length C.local_size, returns (raises nothing) a     *)
(* catalog whose local_size is the number of True entries of m; an         *)
(* all-False mask gives a catalog of local_size 0.                         *)
(***************************************************************************)
C1_SubsetSize ==
    (/\ last.op = "subset"
     /\ KnownSize(cats[last.rank][last.cat])
     /\ last.index.dtype = "?"
     /\ Len(last.index.data) = cats[last.rank][last.cat].size)
    => /\ last.status = "ok"
       /\ last.new \in DOMAIN cats[last.rank]
       /\ cats[last.rank][last.new].size = CountTrue(last.index.data)

\* an all-False mask on a catalog with rows has returned an empty catalog
C1_Witness ==
    /\ last.op = "subset" /\ last.status = "ok"
    /\ cats[last.rank][last.cat].size = MaxSize
    /\ CountTrue(last.index.data) = 0
    /\ cats[last.rank][last.new].size = 0

(***************************************************************************)
(* C2: for every catalog (original or derived) whose local_size and        *)
(* collective_size are defined on all ranks, the collective_size of every  *)
(* rank is the sum over the ranks of the catalog's local_size.             *)
(***************************************************************************)
C2_CollectiveSize ==
    \A c \in CatIds :
        (\A r \in Ranks : /\ c \in DOMAIN cats[r]
                          /\ KnownSize(cats[r][c])
                          /\ cats[r][c].csize # NoCsize)
        => \A r \in Ranks :
              cats[r][c].csize = SumOver(Ranks, [q \in Ranks |-> cats[q][c].size])

\* a derived catalog with different local sizes on two ranks has its
\* collective size on all ranks
C2_Witness ==
    \E c \in CatIds \ {1} :
        /\ \A r \in Ranks : /\ c \in DOMAIN cats[r]
                            /\ KnownSize(cats[r][c])
                            /\ cats[r][c].csize # NoCsize
        /\ \E r, q \in Ranks : cats[r][c].size # cats[q][c].size

(***************************************************************************)
(* C3: override precedence.  A name in the override map stays there; its   *)
(* entry changes only by a successful set of that name on that catalog;    *)
(* and get of the name returns the entry of the override map, never the    *)
(* hard column.                                                            *)
(***************************************************************************)
C3_Step ==
    /\ \A r \in Ranks : \A c \in DOMAIN cats[r] : \A n \in DOMAIN cats[r][c].overrides :
          /\ c \in DOMAIN cats'[r]
          /\ n \in DOMAIN cats'[r][c].overrides
          /\ cats'[r][c].overrides[n] # cats[r][c].overrides[n]
             => /\ last'.op = "set" /\ last'.status = "ok"
                /\ last'.rank = r /\ last'.cat = c /\ last'.name = n
    /\ (/\ last'.op = "get"
        /\ last'.name \in DOMAIN cats'[last'.rank][last'.cat].overrides)
       => /\ last'.status = "ok"
          /\ last'.value =
                ColumnAccessor(last'.cat,
                               cats'[last'.rank][last'.cat].overrides[last'.name])

C3_OverridePrecedence == [][C3_Step]_vars

\* get("Weight") after "Weight" was set to something other than the default
C3_Witness ==
    /\ last.op = "get" /\ last.name = "Weight" /\ last.status = "ok"
    /\ "Weight" \in HardNames(cats[last.rank][last.cat].cls)
    /\ "Weight" \in DOMAIN cats[last.rank][last.cat].overrides
    /\ KnownSize(cats[last.rank][last.cat])
    /\ get_hardcolumn(cats[last.rank][last.cat], "Weight").value.data # last.value.data

(***************************************************************************)
(* C4: the column list of every catalog is the union of the hard-column    *)
(* names of its class and the keys of its override map, in sorted order,   *)
(* every name once.                                                        *)
(***************************************************************************)
C4_Columns ==
    \A r \in Ranks : \A c \in DOMAIN cats[r] :
        LET cols == columns(cats[r][c])
        IN  /\ set(cols) = HardNames(cats[r][c].cls) \cup DOMAIN cats[r][c].overrides
            /\ \A i \in 1 .. (Len(cols) - 1) : NameOrd(cols[i]) < NameOrd(cols[i + 1])

\* a catalog with an override of a hard column and an override of another name
C4_Witness ==
    \E r \in Ranks : \E c \in DOMAIN cats[r] :
        /\ "Weight" \in DOMAIN cats[r][c].overrides
        /\ "Weight" \in HardNames(cats[r][c].cls)
        /\ Len(columns(cats[r][c])) = Cardinality(HardNames(cats[r][c].cls))

(***************************************************************************)
(* C5: a catalog derived by row subset, column subset or copy starts with  *)
(* attrs equal to the parent's, and the two are independent: the attrs of  *)
(* a catalog change only by a change made through that catalog.            *)
(***************************************************************************)
C5_Step ==
    /\ (last'.op \in DeriveOps /\ last'.status = "ok" /\ last'.new # 0)
       => AttrsNext(last'.rank, last'.new) = AttrsNext(last'.rank, last'.cat)
    /\ \A r \in Ranks : \A c \in DOMAIN cats[r] :
          AttrsNext(r, c) # Attrs(r, c)
          => /\ last'.op \in {"setattr", "delattr"}
             /\ last'.rank = r /\ last'.cat = c

C5_AttrsCopied == [][C5_Step]_vars

\* the attrs of a parent were changed after a derivation and the derived
\* catalog still has the attrs it started with
C5_Witness ==
    /\ last.op \in {"setattr", "delattr"}
    /\ \E c \in DOMAIN cats[last.rank] :
          /\ c # last.cat
          /\ Attrs(last.rank, c) = InitAttrs
          /\ Attrs(last.rank, last.cat) # InitAttrs

(***************************************************************************)
(* C6 as claimed: get, set, row subset and column subset never invoke a    *)
(* collective operation, so a rank is never blocked in one of them waiting *)
(* for the other ranks.                                                    *)
(***************************************************************************)
C6_SubsetNeverBlocks ==
    \A r \in Ranks : pc[r] = "wait" => pending[r].op \notin {"subset", "colsubset"}

(***************************************************************************)
(* C6 amended: a rank joins an all-reduce only in update_csize, called     *)
(* explicitly or by the constructor of a catalog derived by row subset,    *)
(* column subset or copy (get and set of a column never do); a derived     *)
(* catalog with known local_size is returned only after every rank has     *)
(* joined that all-reduce, and one with Unknown local_size is returned     *)
(* without any collective.                                                 *)
(***************************************************************************)
C6_Step ==
    \A r \in Ranks :
        /\ contrib'[r] # contrib[r]
           => /\ Len(contrib'[r]) = Len(contrib[r]) + 1
              /\ pc[r] = "idle" /\ pc'[r] = "wait"
              /\ pending'[r].op \in DeriveOps \cup {"update"}
        /\ \A c \in CatIds :
              (c \notin DOMAIN cats[r] /\ c \in DOMAIN cats'[r])
              => IF KnownSize(cats'[r][c])
                 THEN /\ pc[r] = "wait" /\ pc'[r] = "idle"
                      /\ pending[r].op \in DeriveOps /\ pending[r].new = c
                      /\ \A q \in Ranks : Len(contrib[q]) >= Len(contrib[r])
                 ELSE pc[r] = "idle" /\ contrib' = contrib

C6_CollectiveInConstructor == [][C6_Step]_vars

\* a rank is blocked in a row subset that another rank has not called yet
C6_Witness ==
    /\ pc[Root] = "wait" /\ pending[Root].op = "subset"
    /\ \E q \in Ranks : Len(contrib[q]) < Len(contrib[Root])

(***************************************************************************)
(* C7 as claimed: get(S) for a list S of existing column names returns a   *)
(* catalog whose column set is exactly S: no other column name, hard or    *)
(* otherwise, is visible on the result.                                    *)
(***************************************************************************)
C7_ExactColumns ==
    (last.op = "colsubset" /\ last.status = "ok" /\ last.sel # {})
    => set(columns(cats[last.rank][last.new])) = last.sel

(***************************************************************************)
(* C8: set(name, scalar) on a catalog with known local_size n stores a     *)
(* column of exactly n rows, each equal to the scalar; on a catalog with   *)
(* Unknown local_size it fails and leaves the catalog as it was.           *)
(***************************************************************************)
C8_Step ==
    (last'.op = "set" /\ isscalar(last'.arg))
    => LET old == cats[last'.rank][last'.cat]
           new == cats'[last'.rank][last'.cat]
       IN  IF KnownSize(old)
           THEN /\ last'.status = "ok"
                /\ last'.name \in DOMAIN new.overrides
                /\ new.overrides[last'.name].data =
                      [i \in 1 .. old.size |-> last'.arg.data[1]]
           ELSE last'.status # "ok" /\ new = old

C8_ScalarBroadcast == [][C8_Step]_vars

\* set(name, "x") on a catalog of MaxSize rows has stored MaxSize times "x"
C8_Witness ==
    /\ last.op = "set" /\ last.arg = Scalar("x") /\ last.status = "ok"
    /\ cats[last.rank][last.cat].size = MaxSize
    /\ cats[last.rank][last.cat].overrides[last.name].data =
          [i \in 1 .. MaxSize |-> "x"]

(***************************************************************************)
(* C9: on a catalog with known local_size, set(name, array) with an array  *)
(* of another length fails with LengthMismatch and leaves the override map *)
(* unchanged, so every entry of the override map of such a catalog has     *)
(* local_size rows; with Unknown local_size the array is stored unchecked. *)
(***************************************************************************)
OverridesFit(cs) ==
    \A r \in Ranks : \A c \in DOMAIN cs[r] :
        KnownSize(cs[r][c])
        => \A n \in DOMAIN cs[r][c].overrides : len(cs[r][c].overrides[n]) = cs[r][c].size

C9_Step ==
    /\ OverridesFit(cats) /\ OverridesFit(cats')
    /\ (last'.op = "set" /\ ~isscalar(last'.arg))
       => LET old == cats[last'.rank][last'.cat]
              new == cats'[last'.rank][last'.cat]
          IN  IF KnownSize(old) /\ len(last'.arg) # old.size
              THEN last'.status = "LengthMismatch" /\ new.overrides = old.overrides
              ELSE /\ last'.status = "ok"
                   /\ new.overrides[last'.name].data = last'.arg.data

C9_LengthChecked == [][C9_Step]_vars

\* an array of the wrong length was refused
C9_Witness ==
    /\ last.op = "set" /\ last.status = "LengthMismatch"
    /\ len(last.arg) = cats[last.rank][last.cat].size + 1

(***************************************************************************)
(* C10: get(name) of a name that is neither an override nor a hard column  *)
(* fails with UnknownColumn; get(list of names) with such a name fails     *)
(* with UnknownColumn reporting every invalid name; no catalog is created  *)
(* and the catalogs and attrs of the rank are unchanged.                   *)
(***************************************************************************)
C10_Step ==
    /\ (last'.op = "get" /\ last'.name \notin Visible(cats[last'.rank][last'.cat]))
       => last'.status = "UnknownColumn"
    /\ (/\ last'.op = "colsubset"
        /\ last'.sel \ Visible(cats[last'.rank][last'.cat]) # {})
       => /\ last'.status = "UnknownColumn"
          /\ last'.invalid = last'.sel \ Visible(cats[last'.rank][last'.cat])
          /\ last'.new = 0
    /\ last'.status = "UnknownColumn"
       => /\ cats'[last'.rank] = cats[last'.rank]
          /\ attrs'[last'.rank] = attrs[last'.rank]

C10_UnknownColumn == [][C10_Step]_vars

\* a selection with two invalid names was refused
C10_Witness ==
    /\ last.op = "colsubset" /\ last.status = "UnknownColumn"
    /\ Cardinality(last.invalid) = 2

(***************************************************************************)
(* C11: catalog[selector] accepts every boolean mask of length local_size, *)
(* given as an array, a deferred handle or a plain list of booleans; a     *)
(* mask of another length fails with LengthMismatch, an array that is not  *)
(* boolean with TypeMismatch, any other selector type with InvalidSelector.*)
(***************************************************************************)
IsArray(sel) == sel.kind \in {"ndarray", "dask", "accessor"}

C11_AcceptsEveryMask ==
    (last.op = "getitem" /\ KnownSize(cats[last.rank][last.cat]))
    => LET size == cats[last.rank][last.cat].size
           sel == last.index
       IN  /\ ((IsArray(sel) \/ sel.kind = "list")
                /\ sel.dtype = "?" /\ Len(sel.data) = size)
               => last.status = "ok"
           /\ (IsArray(sel) /\ Len(sel.data) # size)
               => last.status = "LengthMismatch"
           /\ (IsArray(sel) /\ Len(sel.data) = size /\ sel.dtype # "?")
               => last.status = "TypeMismatch"
           /\ sel.kind = "scalar" => last.status = "InvalidSelector"

(***************************************************************************)
(* C12: catalog[selector] with a slice or a list of integers fails with    *)
(* SizeRequired when local_size is Unknown; with a known local_size and    *)
(* positions inside the catalog it returns the catalog that has, in every  *)
(* column, the parent's rows at the selected positions in the parent's     *)
(* order, each once: its local_size is the number of distinct positions.   *)
(***************************************************************************)
\* the positions (1-based) a slice or a list of integers selects among n rows
Position(i, n) == IF i < 0 THEN n + i + 1 ELSE i + 1
Positions(sel, n) ==
    IF sel.kind = "slice"
    THEN {p \in 1 .. n : slice_bound(sel.data[1], n, 0) < p
                          /\ p <= slice_bound(sel.data[2], n, n)}
    ELSE {Position(int(sel.data[j]), n) : j \in DOMAIN sel.data}

\* the rows of data at the positions P, in the order of data
RECURSIVE RowsAt(_, _, _)
RowsAt(data, P, from) ==
    IF from > Len(data) THEN <<>>
    ELSE (IF from \in P THEN <<data[from]>> ELSE <<>>) \o RowsAt(data, P, from + 1)

ByPosition(sel) == sel.kind = "slice" \/ (sel.kind = "list" /\ sel.dtype = "i")

C12_PositionsAsMask ==
    (last.op = "getitem" /\ ByPosition(last.index))
    => LET parent == cats[last.rank][last.cat]
           P == Positions(last.index, parent.size)
       IN  IF ~KnownSize(parent) THEN last.status = "SizeRequired"
           ELSE P \subseteq 1 .. parent.size
                => /\ last.status = "ok"
                   /\ last.new \in DOMAIN cats[last.rank]
                   /\ LET child == cats[last.rank][last.new]
                      IN  /\ child.size = Cardinality(P)
                          /\ \A name \in Visible(parent) :
                                /\ name \in DOMAIN child.overrides
                                /\ child.overrides[name].data =
                                      RowsAt(getitem_str(parent, last.cat, name).value.data,
                                             P, 1)

\* a list that names the last row, then twice the first, has selected the
\* two rows of a column in the parent's order
C12_Witness ==
    /\ last.op = "getitem" /\ last.status = "ok"
    /\ last.index.kind = "list" /\ last.index.dtype = "i"
    /\ Len(last.index.data) = 3
    /\ "A" \in DOMAIN cats[last.rank][last.cat].overrides
    /\ cats[last.rank][last.cat].size = MaxSize
    /\ LET data == cats[last.rank][last.cat].overrides["A"].data
       IN  /\ data[1] # data[MaxSize]
           /\ cats[last.rank][last.new].overrides["A"].data = <<data[1], data[MaxSize]>>

(***************************************************************************)
(* C13: update_csize() on a catalog whose local_size is Unknown raises     *)
(* SizeRequired before any reduction is started: the rank contributes      *)
(* nothing to an all-reduce, is not blocked, and the collective size of    *)
(* the catalog stays undefined.                                            *)
(***************************************************************************)
C13_Step ==
    \A r \in Ranks : \A c \in DOMAIN cats[r] :
        (ip'[r] = ip[r] + 1 /\ prog'[ip'[r]].op = "update" /\ prog'[ip'[r]].cat = c
         /\ ~KnownSize(cats[r][c]))
        => /\ last' = [NoLast EXCEPT !.rank = r, !.op = "update", !.cat = c,
                                     !.status = "SizeRequired"]
           /\ contrib' = contrib
           /\ pc'[r] = "failed"
           /\ cats' = cats
           /\ cats'[r][c].csize = NoCsize

C13_SizeRequiredBeforeReduction == [][C13_Step]_vars

\* update_csize() has raised on a catalog without size; the rank has made
\* no contribution
C13_Witness ==
    /\ last.op = "update" /\ last.status = "SizeRequired"
    /\ ~KnownSize(cats[last.rank][last.cat])
    /\ contrib[last.rank] = <<>>
    /\ cats[last.rank][last.cat].csize = NoCsize

(***************************************************************************)
(* C14: local_size is immutable after construction.  Writing the size      *)
(* property fails with ImmutableAttribute, and no call (get, set, subset,  *)
(* column subset, copy, update_csize, or the write itself) changes the     *)
(* local_size of a catalog that exists.                                    *)
(***************************************************************************)
C14_Step ==
    /\ \A r \in Ranks : \A c \in DOMAIN cats[r] :
          c \in DOMAIN cats'[r] /\ cats'[r][c].size = cats[r][c].size
    /\ (nlocal' = nlocal + 1 /\ last'.op = "setsize")
       => last'.status = "ImmutableAttribute"

C14_SizeImmutable == [][C14_Step]_vars

\* a write of another size has failed on a catalog that has a size
C14_Witness ==
    /\ last.op = "setsize" /\ last.status = "ImmutableAttribute"
    /\ cats[last.rank][last.cat].size = MaxSize
    /\ last.new # MaxSize

(***************************************************************************)
(* C15: compute(h1, ..., hk) returns one concrete value per argument, in   *)
(* the order of the arguments, when k >= 2, and the bare value (not a      *)
(* one-element sequence) when k = 1; the result does not depend on         *)
(* use_cache or on what the cache has stored.                              *)
(***************************************************************************)
Concrete(h) == IF h.kind \in {"dask", "accessor"} THEN NdArray(h.dtype, h.data) ELSE h

C15_ComputeResult ==
    LET args == gateway.args
        result == gateway.result
    IN  /\ Len(args) >= 2
           => /\ result.tuple
              /\ Len(result.values) = Len(args)
              /\ \A i \in DOMAIN args : result.values[i] = Concrete(args[i])
        /\ Len(args) = 1
           => ~result.tuple /\ result.values = <<Concrete(args[1])>>

\* two different dask collections have been computed with the cache in
\* use, the second of them out of the cache
C15_Witness ==
    /\ gateway.use_cache /\ gateway.has_cache
    /\ Len(gateway.args) = 2
    /\ gateway.args[1].kind = "dask" /\ gateway.args[2].kind = "dask"
    /\ gateway.args[1] # gateway.args[2]
    /\ gateway.result = Tuple(<<Concrete(gateway.args[1]), Concrete(gateway.args[2])>>)
    /\ DOMAIN gateway.cache = {gateway.args[1], gateway.args[2]}

(***************************************************************************)
(* C16: to_mesh fails when the weight or the selection name is not a       *)
(* column of the catalog, when the window is not a recognized one, or when *)
(* BoxSize / Nmesh is neither passed nor in attrs; failed or not, the call *)
(* leaves the overrides, the attrs and the sizes of every catalog as they  *)
(* were.                                                                   *)
(***************************************************************************)
C16_Step ==
    (nlocal' = nlocal + 1 /\ last'.op = "to_mesh")
    => LET r == last'.rank
           c == last'.cat
           kw == last'.arg.data
           bad == \/ kw[4] \notin Visible(cats[r][c])
                  \/ kw[5] \notin Visible(cats[r][c])
                  \/ kw[3] \notin methods
                  \/ kw[2] = "None" /\ "BoxSize" \notin DOMAIN Attrs(r, c)
                  \/ kw[1] = "None" /\ "Nmesh" \notin DOMAIN Attrs(r, c)
       IN  /\ bad => last'.status \in {"UnknownColumn", "InvalidWindow", "MissingParameter"}
           /\ cats' = cats
           /\ attrs' = attrs

C16_MeshValidatesAndKeeps == [][C16_Step]_vars

\* a mesh has been made of a catalog with an override, weighted by the
\* overriding column, with one parameter passed and the other out of attrs
C16_Witness ==
    /\ last.op = "to_mesh" /\ last.status = "ok"
    /\ last.arg.data[1] = "None" /\ last.arg.data[2] # "None"
    /\ "Nmesh" \in DOMAIN Attrs(last.rank, last.cat)
    /\ last.value.kind = "mesh"
    /\ last.value.data[1] = Attrs(last.rank, last.cat)["Nmesh"]

(***************************************************************************)
(* C17: find_column(cls, name) returns the first member tagged with the    *)
(* name on the walk that visits the class itself and then its bases,       *)
(* recursively, in the order of their declaration: a member of the class   *)
(* itself wins over those of its ancestors, and an inherited column is     *)
(* found at any depth; when no class on the walk declares the name the     *)
(* call fails with ColumnNotFound, naming the column and the class.        *)
(***************************************************************************)
RECURSIVE Walk(_)
RECURSIVE WalkAll(_)
WalkAll(bases) ==
    IF bases = <<>> THEN <<>> ELSE Walk(Head(bases)) \o WalkAll(Tail(bases))
Walk(cls) == <<cls>> \o WalkAll(class_bases(cls))

C17_FirstOnWalk ==
    last.op = "find_column"
    => LET walk == Walk(last.cls)
           hits == {i \in DOMAIN walk : last.name \in set(class_dict(walk[i]))}
       IN  IF hits = {}
           THEN /\ last.status = "ColumnNotFound"
                /\ last.value.data = <<last.name, last.cls>>
           ELSE /\ last.status = "ok"
                /\ last.value.kind = "provider"
                /\ last.value.data = <<last.name>>
                /\ \E i \in hits : /\ \A j \in hits : i <= j
                                    /\ last.value.dtype = walk[i]
                /\ last.name \in set(class_dict(last.cls))
                   => last.value.dtype = last.cls

\* "Weight" has been looked up in Leaf, which does not declare it: the one
\* found is that of the first base, Mixin, and not one of those the second
\* base inherits
C17_Witness ==
    /\ last.op = "find_column" /\ last.cls = "Leaf" /\ last.name = "Weight"
    /\ last.status = "ok" /\ last.value.dtype = "Mixin"

(***************************************************************************)
(* C18: the catalog get_catalog_subset(C, m) returns has every column name *)
(* that is visible on C (hard or override), and each of these columns      *)
(* holds the rows of C's column at the True positions of m, in the order   *)
(* they have in C; the call changes no catalog that exists, so the         *)
(* overrides and the columns of C are what they were.                      *)
(***************************************************************************)
C18_Step ==
    \A r \in Ranks :
        (/\ last'.rank = r /\ last'.op = "subset" /\ last'.status = "ok"
         /\ last'.new \notin DOMAIN cats[r] /\ last'.new \in DOMAIN cats'[r])
        => LET c == last'.cat
               parent == cats[r][c]
               child == cats'[r][last'.new]
               m == last'.index.data
               P == {i \in DOMAIN m : m[i] = "True"}
           IN  /\ \A name \in Visible(parent) :
                     /\ name \in Visible(child)
                     /\ getitem_str(child, last'.new, name).status = "ok"
                     /\ getitem_str(child, last'.new, name).value.data =
                           RowsAt(getitem_str(parent, c, name).value.data, P, 1)
               /\ \A k \in DOMAIN cats[r] : cats'[r][k] = cats[r][k]
               /\ columns(cats'[r][c]) = columns(parent)

C18_SubsetKeepsColumns == [][C18_Step]_vars

\* a catalog whose column "A" is an override with different rows has been
\* cut to all its rows but the first: the subset has "A" with the rows left
\* and the hard column "Position" of the parent's class
C18_Witness ==
    /\ last.op = "subset" /\ last.status = "ok"
    /\ last.index.data = ButFirst(MaxSize)
    /\ LET parent == cats[last.rank][last.cat]
           child == cats[last.rank][last.new]
       IN  /\ "A" \in DOMAIN parent.overrides
           /\ parent.overrides["A"].data[1] # parent.overrides["A"].data[2]
           /\ child.overrides["A"].data = Tail(parent.overrides["A"].data)
           /\ "Position" \in DOMAIN child.overrides

(***************************************************************************)
(* C19: whatever value was assigned to a column (an array, a dask array,   *)
(* or an accessor got from this or another catalog), the entry stored in   *)
(* the overrides is a plain dask array that refers to no catalog: no       *)
(* overrides of any catalog hold an accessor.                              *)
(***************************************************************************)
C19_NoBackReference ==
    \A r \in Ranks : \A c \in DOMAIN cats[r] :
        \A name \in DOMAIN cats[r][c].overrides :
            /\ cats[r][c].overrides[name].kind = "dask"
            /\ cats[r][c].overrides[name].catalog = 0

(***************************************************************************)
(* C20: copy() of a catalog that has no size raises an error (it does not  *)
(* return a value); copy() of a catalog with a size returns a new catalog  *)
(* of the same size and with the same column names, whose columns hold the *)
(* same data as the original's.                                            *)
(***************************************************************************)
C20_CopyRaisesOrCopies ==
    last.op = "copy"
    => LET self == cats[last.rank][last.cat]
       IN  IF ~KnownSize(self)
           THEN last.status # "ok"
           ELSE /\ last.status = "ok"
                /\ last.new \in DOMAIN cats[last.rank]
                /\ last.new # last.cat
                /\ LET toret == cats[last.rank][last.new]
                   IN  /\ toret.size = self.size
                       /\ columns(toret) = columns(self)
                       /\ \A name \in Visible(self) :
                             getitem_str(toret, last.new, name).value.data =
                                getitem_str(self, last.cat, name).value.data

(***************************************************************************)
(* C21: when every rank calls the default read with the same columns,      *)
(* every rank eventually reaches its yield (none stays blocked in a        *)
(* broadcast), with stat['Ntot'] the number of rows the root read on every *)
(* rank and, on the ranks that did not read, one placeholder of no rows    *)
(* per column; whatever the columns are, an empty list and columns read    *)
(* with different numbers of rows included.                                *)
(***************************************************************************)
Yielded ==
    \A r \in Ranks :
        /\ reader.pc[r] = "yield"
        /\ reader.stat[r] = reader.Ntot[0]
        /\ r # 0 => /\ Len(reader.data[r]) = Len(reader.columns)
                    /\ \A i \in DOMAIN reader.data[r] : reader.data[r][i].shape = 0

C21_EveryRankYields == reader.called ~> Yielded

(***************************************************************************)
(* C22: in the registry of every extension point each plugin_name maps to  *)
(* the first class that was defined with that name; a class defined with a *)
(* name that is registered already does not replace the entry, has no      *)
(* register() run and no schema attached; a class statement without        *)
(* plugin_name fails and leaves the registries as they were; create with a *)
(* name that is not registered fails.                                      *)
(***************************************************************************)
\* the classes whose class statement completed, with the given name
Defined(ep, plugin_name) ==
    {i \in DOMAIN plugins.classes :
        /\ plugins.classes[i].ep = ep
        /\ plugins.classes[i].plugin_name = plugin_name
        /\ plugins.classes[i].error = ""}

Registered(id) ==
    \E ep \in ExtensionPoints : \E n \in DOMAIN plugins.registry[ep] :
        plugins.registry[ep][n] = id

====
